---- MODULE Spec2Model ----
(***************************************************************************)
(* The docset ingestion-and-retrieval scripts:                             *)
(*   scripts/ingest_docset.py  chunk_text, embed_texts, main               *)
(*   scripts/query_docset.py   load_index, load_metadata, main             *)
(*   scripts/assist.py         load_index, load_metadata, retrieve_docs,   *)
(*                             main                                        *)
(*                                                                         *)
(* Representation.  A text is known by its token count: enc.encode(text)   *)
(* is the sequence of token positions 0 .. n-1.  A chunk, the string       *)
(* enc.decode(tokens[lo:hi]), is the span [lo |-> lo, hi |-> hi] of the    *)
(* positions lo .. hi-1 it was decoded from.  Python sequences are 0-based *)
(* in the source and 1-based here; row numbers and loop indices keep the   *)
(* source's 0-based values.                                                *)
(***************************************************************************)
EXTENDS Integers, Sequences, FiniteSets, TLC

\* ---------------------------------------------------------------- bounds
MaxLen == 7        \* longest token sequence given to chunk_text alone
MaxWindow == 4     \* largest max_tokens given to chunk_text alone
MaxDocs == 2       \* most entries of a docset's searchIndex
MaxRows == 3       \* most rows of a persisted index / records of a metadata file
MaxK == 3          \* largest --topk
MaxDist == 2       \* largest distance of a stored row to the query

\* ------------------------------------------------------ program constants
batch_size == 50
DefaultMaxTokens == 500
DefaultOverlap == 50

VARIABLES
    \* chunk_text called on its own
    cpc, ntokens, max_tokens, overlap, chunks,
    \* ingest_docset.py main
    pc, err, docs, texts, meta, embeddings, bi, sent, index, indexFile, metaFile,
    \* query_docset.py / assist.py main
    qpc, qerr, script, topk, qindex, qmeta, pairs, results, printed, searched

chunkVars == <<cpc, ntokens, max_tokens, overlap, chunks>>
ingestVars == <<pc, err, docs, texts, meta, embeddings, bi, sent, index,
                indexFile, metaFile>>
queryVars == <<qpc, qerr, script, topk, qindex, qmeta, pairs, results, printed,
               searched>>
vars == <<chunkVars, ingestVars, queryVars>>

\* ---------------------------------------------------------------- Python
Min(a, b) == IF a <= b THEN a ELSE b

\* s[lo:hi] for 0 <= lo, 0 <= hi: the slice is clamped to the sequence.
Slice(s, lo, hi) == SubSeq(s, lo + 1, Min(hi, Len(s)))

\* list(range(start, stop, step)) for step > 0.
Range(start, stop, step) ==
    LET cnt == IF stop > start THEN (stop - start + step - 1) \div step ELSE 0
    IN  [j \in 1..cnt |-> start + (j - 1) * step]

RECURSIVE Flatten(_)
Flatten(ss) == IF ss = <<>> THEN <<>> ELSE Head(ss) \o Flatten(Tail(ss))

\* ------------------------------------------------------------ chunk_text
\* Mutant of chunk_text: the window advances by max_tokens, the overlap forgotten.
chunk_text_step_max(n, maxTokens, ovl) ==
    LET starts == Range(0, n, maxTokens)
    IN  [j \in 1..Len(starts) |->
            [lo |-> starts[j], hi |-> Min(starts[j] + maxTokens, n)]]

\* for i in range(0, len(tokens), max_tokens - overlap):
\*     chunks.append(enc.decode(tokens[i:i + max_tokens]))
chunk_text(n, maxTokens, ovl) ==
    LET starts == Range(0, n, maxTokens - ovl)
    IN  [j \in 1..Len(starts) |->
            [lo |-> starts[j], hi |-> Min(starts[j] + maxTokens, n)]]

ChunkInit ==
    /\ cpc = "call"
    /\ ntokens \in 0..MaxLen
    /\ max_tokens \in 1..MaxWindow
    /\ overlap \in 0..(max_tokens - 1)
    /\ chunks = <<>>

ChunkCall ==
    /\ cpc = "call"
    /\ chunks' = chunk_text(ntokens, max_tokens, overlap)
    /\ cpc' = "done"
    /\ UNCHANGED <<ntokens, max_tokens, overlap, ingestVars, queryVars>>

\* ------------------------------------------------------ ingest_docset.py
\* The searchIndex rows a docset may hold: name, token count of the stripped
\* text of the file at path, and whether that file exists.
EntryPool ==
    { [name |-> "UIView Overview", ntok |-> 300, isfile |-> TRUE],
      [name |-> "UIButton Overview", ntok |-> 120, isfile |-> TRUE],
      [name |-> "Blank", ntok |-> 0, isfile |-> TRUE],
      [name |-> "Framework", ntok |-> 22600, isfile |-> TRUE],
      [name |-> "Guide", ntok |-> 22050, isfile |-> TRUE],
      [name |-> "Pruned", ntok |-> 300, isfile |-> FALSE] }

RECURSIVE SeqsUpTo(_, _)
SeqsUpTo(S, n) ==
    IF n = 0 THEN {<<>>}
    ELSE LET shorter == SeqsUpTo(S, n - 1)
         IN  shorter \cup {Append(s, x) : s \in {t \in shorter : Len(t) = n - 1}, x \in S}

RECURSIVE SelectDocs(_)
SelectDocs(entries) ==
    IF entries = <<>> THEN <<>>
    ELSE LET e == Head(entries)
         IN  (IF e.isfile THEN <<[name |-> e.name, ntok |-> e.ntok]>> ELSE <<>>)
             \o SelectDocs(Tail(entries))

\* The text of one chunk of a document: the decoded window of its tokens.
ChunkOf(doc, span) == [of |-> doc.name, lo |-> span.lo, hi |-> span.hi]

RECURSIVE ChunkDocs(_)
ChunkDocs(ds) ==
    IF ds = <<>> THEN <<>>
    ELSE LET d == Head(ds)
             cs == chunk_text(d.ntok, DefaultMaxTokens, DefaultOverlap)
         IN  [j \in 1..Len(cs) |-> [name |-> d.name, text |-> ChunkOf(d, cs[j])]]
             \o ChunkDocs(Tail(ds))

\* The embedding backend as a function of one text.
Emb(t) == [vec |-> t]

\* Mutant of NextBatch: the slice stops one text early.
NextBatchShort(ts, i) == Slice(ts, i, i + batch_size - 1)

\* batch = texts[i:i + batch_size]
NextBatch(ts, i) == Slice(ts, i, i + batch_size)

\* What one call of embed_texts can give: one vector per text in order
\* ("ok"), a response whose data array lacks the last item ("short"), or an
\* exception ("fail").
Responses == {"ok", "short", "fail"}
Faithful == {"ok", "fail"}

NoFile == [exists |-> FALSE, rows |-> <<>>]

IngestInit ==
    /\ pc = "start"
    /\ err = "none"
    /\ docs = <<>>
    /\ texts = <<>>
    /\ meta = <<>>
    /\ embeddings = <<>>
    /\ bi = 0
    /\ sent = <<>>
    /\ index = <<>>
    /\ indexFile = NoFile
    /\ metaFile = NoFile

Abort(why) ==
    /\ pc' = "failed"
    /\ err' = why

\* main, to the API key check.
ParseArgs(key) ==
    /\ pc = "start"
    /\ IF key THEN pc' = "load" /\ err' = err ELSE Abort("no api key")
    /\ UNCHANGED <<docs, texts, meta, embeddings, bi, sent, index, indexFile,
                   metaFile, chunkVars, queryVars>>

\* docs = get_documents(args.docset); if not docs: exit.
GetDocuments(valid, entries) ==
    /\ pc = "load"
    /\ IF ~valid
       THEN Abort("invalid docset") /\ docs' = docs
       ELSE LET ds == SelectDocs(entries)
            IN  /\ docs' = ds
                /\ IF ds = <<>> THEN Abort("no documents")
                   ELSE pc' = "chunk" /\ err' = err
    /\ UNCHANGED <<texts, meta, embeddings, bi, sent, index, indexFile, metaFile,
                   chunkVars, queryVars>>

\* for name, text in docs: for chunk in chunk_text(text): texts.append, meta.append
ChunkAll ==
    /\ pc = "chunk"
    /\ LET m == ChunkDocs(docs)
       IN  /\ meta' = m
           /\ texts' = [j \in 1..Len(m) |-> m[j].text]
    /\ embeddings' = <<>>
    /\ bi' = 0
    /\ pc' = "embed"
    /\ UNCHANGED <<err, docs, sent, index, indexFile, metaFile, chunkVars, queryVars>>

\* One turn of the batch loop: embs = embed_texts(batch); embeddings.extend(embs)
EmbedBatch(r) ==
    /\ pc = "embed"
    /\ bi < Len(texts)
    /\ LET batch == NextBatch(texts, bi)
           all == [j \in 1..Len(batch) |-> Emb(batch[j])]
       IN  /\ sent' = Append(sent, batch)
           /\ CASE r = "ok" ->
                     /\ embeddings' = embeddings \o all
                     /\ bi' = bi + batch_size
                     /\ UNCHANGED <<pc, err>>
                [] r = "short" ->
                     /\ embeddings' = embeddings \o SubSeq(all, 1, Len(all) - 1)
                     /\ bi' = bi + batch_size
                     /\ UNCHANGED <<pc, err>>
                [] OTHER ->
                     /\ Abort("embedding backend error")
                     /\ UNCHANGED <<embeddings, bi>>
    /\ UNCHANGED <<docs, texts, meta, index, indexFile, metaFile, chunkVars, queryVars>>

\* dim = len(embeddings[0]); index = IndexFlatL2(dim); index.add(embeddings)
BuildIndex ==
    /\ pc = "embed"
    /\ bi >= Len(texts)
    /\ IF embeddings = <<>>
       THEN Abort("IndexError") /\ index' = index
       ELSE index' = embeddings /\ pc' = "mkdir" /\ err' = err
    /\ UNCHANGED <<docs, texts, meta, embeddings, bi, sent, indexFile, metaFile,
                   chunkVars, queryVars>>

\* os.makedirs(os.path.dirname(args.output), exist_ok=True)
MakeDirs(ok) ==
    /\ pc = "mkdir"
    /\ IF ok THEN pc' = "write_index" /\ err' = err ELSE Abort("makedirs failed")
    /\ UNCHANGED <<docs, texts, meta, embeddings, bi, sent, index, indexFile,
                   metaFile, chunkVars, queryVars>>

\* faiss.write_index(index, args.output); a failed write leaves no file.
WriteIndex(ok) ==
    /\ pc = "write_index"
    /\ IF ok
       THEN /\ indexFile' = [exists |-> TRUE, rows |-> index]
            /\ pc' = "write_meta" /\ err' = err
       ELSE Abort("write_index failed") /\ indexFile' = indexFile
    /\ UNCHANGED <<docs, texts, meta, embeddings, bi, sent, index, metaFile,
                   chunkVars, queryVars>>

\* with open(meta_file, 'w') as f: json.dump(meta, f); a failed open leaves no file.
WriteMeta(ok) ==
    /\ pc = "write_meta"
    /\ IF ok
       THEN /\ metaFile' = [exists |-> TRUE, rows |-> meta]
            /\ pc' = "done" /\ err' = err
       ELSE Abort("metadata write failed") /\ metaFile' = metaFile
    /\ UNCHANGED <<docs, texts, meta, embeddings, bi, sent, index, indexFile,
                   chunkVars, queryVars>>

\* ------------------------------------------- query_docset.py, assist.py
\* Record i of a metadata file, as ingestion writes it: {'name', 'text'}.
MetaRecord(i) == [name |-> <<"name", i>>, text |-> <<"text", i>>]
MetaFile(m) == [i \in 1..m |-> MetaRecord(i)]

\* The distance the library reports at a padded position.
PadDist == MaxDist + 1

\* index.search(vec, k) on n rows, row r at distance dist[r] from vec: the
\* min(n, k) nearest rows in non-decreasing distance (ties in any order),
\* then positions padded with the row index -1.
IndexSearch(n, k, dist) ==
    LET m == Min(n, k)
        rows == 0..(n - 1)
        ranked == { o \in [1..m -> rows] :
                      /\ \A a, b \in 1..m :
                            a < b => o[a] # o[b] /\ dist[o[a]] <= dist[o[b]]
                      /\ \A r \in rows :
                            (\A a \in 1..m : o[a] # r)
                                => \A a \in 1..m : dist[o[a]] <= dist[r] }
    IN  { [j \in 1..k |-> IF j <= m
                          THEN [dist |-> dist[o[j]], idx |-> o[j]]
                          ELSE [dist |-> PadDist, idx |-> -1]] : o \in ranked }

\* Whether s[idx] raises no IndexError.
InRange(s, idx) == -Len(s) <= idx /\ idx < Len(s)

\* Mutant of PyIndex: the row after the one asked for.
PyIndexNext(s, idx) == s[((idx + 1) % Len(s)) + 1]

\* s[idx], a negative idx counting from the end.
PyIndex(s, idx) == IF idx >= 0 THEN s[idx + 1] ELSE s[Len(s) + idx + 1]

\* entry.get(key, default)
Get(entry, key, default) == IF key \in DOMAIN entry THEN entry[key] ELSE default

\* How many (dist, idx) pairs the result loop has consumed.
Pos == IF script = "assist" THEN Len(results) ELSE Len(printed)

QueryInit ==
    /\ qpc = "start"
    /\ qerr = "none"
    /\ script = "none"
    /\ topk = 0
    /\ qindex = [loaded |-> FALSE, ntotal |-> 0]
    /\ qmeta = <<>>
    /\ pairs = <<>>
    /\ results = <<>>
    /\ printed = <<>>
    /\ searched = FALSE

QAbort(why) ==
    /\ qpc' = "failed"
    /\ qerr' = why

\* main of either script, to the API key check.
QParseArgs(s, k, key) ==
    /\ qpc = "start"
    /\ script' = s
    /\ topk' = k
    /\ IF key THEN qpc' = "load_index" /\ qerr' = qerr ELSE QAbort("no api key")
    /\ UNCHANGED <<qindex, qmeta, pairs, results, printed, searched, chunkVars,
                   ingestVars>>

\* index = load_index(args.index)
LoadIndex(isfile, n) ==
    /\ qpc = "load_index"
    /\ IF isfile
       THEN /\ qindex' = [loaded |-> TRUE, ntotal |-> n]
            /\ qpc' = "load_meta" /\ qerr' = qerr
       ELSE QAbort("index file not found") /\ qindex' = qindex
    /\ UNCHANGED <<script, topk, qmeta, pairs, results, printed, searched,
                   chunkVars, ingestVars>>

\* meta = load_metadata(args.meta)
LoadMetadata(isfile, m) ==
    /\ qpc = "load_meta"
    /\ IF isfile
       THEN /\ qmeta' = MetaFile(m)
            /\ qpc' = "embed" /\ qerr' = qerr
       ELSE QAbort("metadata file not found") /\ qmeta' = qmeta
    /\ UNCHANGED <<script, topk, qindex, pairs, results, printed, searched,
                   chunkVars, ingestVars>>

\* embed_query / embed_text: one call of the backend with [query].
EmbedQuery(ok) ==
    /\ qpc = "embed"
    /\ IF ok THEN qpc' = "search" /\ qerr' = qerr
       ELSE QAbort("embedding backend error")
    /\ UNCHANGED <<script, topk, qindex, qmeta, pairs, results, printed, searched,
                   chunkVars, ingestVars>>

\* D, I = index.search(vec, topk)
Search(dist) ==
    /\ qpc = "search"
    /\ pairs' \in IndexSearch(qindex.ntotal, topk, dist)
    /\ searched' = TRUE
    /\ qpc' = "emit"
    /\ UNCHANGED <<qerr, script, topk, qindex, qmeta, results, printed, chunkVars,
                   ingestVars>>

\* One turn of: for dist, idx in zip(D[0], I[0]): entry = meta[idx]; ...
EmitNext ==
    /\ qpc = "emit"
    /\ Pos < Len(pairs)
    /\ LET p == pairs[Pos + 1]
       IN  IF ~InRange(qmeta, p.idx)
           THEN QAbort("IndexError") /\ UNCHANGED <<results, printed>>
           ELSE LET entry == PyIndex(qmeta, p.idx)
                    r == [name |-> Get(entry, "name", "<unknown>"),
                          chunk |-> Get(entry, "text", ""),
                          distance |-> p.dist]
                IN  /\ IF script = "assist"
                       THEN results' = Append(results, r) /\ printed' = printed
                       ELSE printed' = Append(printed, r) /\ results' = results
                    /\ UNCHANGED <<qpc, qerr>>
    /\ UNCHANGED <<script, topk, qindex, qmeta, pairs, searched, chunkVars,
                   ingestVars>>

\* The loop is over; assist.py prints the list retrieve_docs returned.
Finish ==
    /\ qpc = "emit"
    /\ Pos = Len(pairs)
    /\ printed' = IF script = "assist" THEN results ELSE printed
    /\ qpc' = "done"
    /\ UNCHANGED <<qerr, script, topk, qindex, qmeta, pairs, results, searched,
                   chunkVars, ingestVars>>

\* -------------------------------------------------------- specifications
ChunkIdle ==
    /\ cpc = "idle"
    /\ ntokens = 0
    /\ max_tokens = 1
    /\ overlap = 0
    /\ chunks = <<>>

IngestIdle ==
    /\ pc = "idle"
    /\ err = "none"
    /\ docs = <<>>
    /\ texts = <<>>
    /\ meta = <<>>
    /\ embeddings = <<>>
    /\ bi = 0
    /\ sent = <<>>
    /\ index = <<>>
    /\ indexFile = NoFile
    /\ metaFile = NoFile

QueryIdle ==
    /\ qpc = "idle"
    /\ qerr = "none"
    /\ script = "none"
    /\ topk = 0
    /\ qindex = [loaded |-> FALSE, ntotal |-> 0]
    /\ qmeta = <<>>
    /\ pairs = <<>>
    /\ results = <<>>
    /\ printed = <<>>
    /\ searched = FALSE

\* chunk_text on every token count, max_tokens and overlap within the bounds.
InitChunk == ChunkInit /\ IngestIdle /\ QueryIdle
NextChunk == ChunkCall
SpecChunk == InitChunk /\ [][NextChunk]_vars

\* One run of ingest_docset.py; the backend's responses are unconstrained.
InitIngest == ChunkIdle /\ IngestInit /\ QueryIdle
NextIngest ==
    \/ \E key \in BOOLEAN : ParseArgs(key)
    \/ \E valid \in BOOLEAN, entries \in SeqsUpTo(EntryPool, MaxDocs) :
          GetDocuments(valid, entries)
    \/ ChunkAll
    \/ \E r \in Responses : EmbedBatch(r)
    \/ BuildIndex
    \/ \E ok \in BOOLEAN : MakeDirs(ok)
    \/ \E ok \in BOOLEAN : WriteIndex(ok)
    \/ \E ok \in BOOLEAN : WriteMeta(ok)
SpecIngest == InitIngest /\ [][NextIngest]_vars

\* One run of ingest_docset.py against a backend that answers every batch
\* with one vector per text, in order, or raises.
NextFaithful ==
    \/ \E key \in BOOLEAN : ParseArgs(key)
    \/ \E valid \in BOOLEAN, entries \in SeqsUpTo(EntryPool, MaxDocs) :
          GetDocuments(valid, entries)
    \/ ChunkAll
    \/ \E r \in Faithful : EmbedBatch(r)
    \/ BuildIndex
    \/ \E ok \in BOOLEAN : MakeDirs(ok)
    \/ \E ok \in BOOLEAN : WriteIndex(ok)
    \/ \E ok \in BOOLEAN : WriteMeta(ok)
SpecFaithful == InitIngest /\ [][NextFaithful]_vars

\* One run of query_docset.py or assist.py on the files it is pointed at.
InitQuery == ChunkIdle /\ IngestIdle /\ QueryInit
NextQuery ==
    \/ \E s \in {"query_docset", "assist"}, k \in 1..MaxK, key \in BOOLEAN :
          QParseArgs(s, k, key)
    \/ \E isfile \in BOOLEAN, n \in 0..MaxRows : LoadIndex(isfile, n)
    \/ \E isfile \in BOOLEAN, m \in 0..MaxRows : LoadMetadata(isfile, m)
    \/ \E ok \in BOOLEAN : EmbedQuery(ok)
    \/ \E dist \in [0..(qindex.ntotal - 1) -> 0..MaxDist] : Search(dist)
    \/ EmitNext
    \/ Finish
SpecQuery == InitQuery /\ [][NextQuery]_vars

\* ---------------------------------------------------------------- claims
\* The tokens of the window tokens[lo:hi].
Positions(lo, hi) == [k \in 1..(hi - lo) |-> lo + k - 1]
Window(c) == Positions(c.lo, c.hi)
Size(c) == c.hi - c.lo
DropFirst(s, k) == SubSeq(s, k + 1, Len(s))

\* The first window in full, every later one without its first ovl tokens.
Reassemble(cs, ovl) ==
    Flatten([j \in 1..Len(cs) |->
                IF j = 1 THEN Window(cs[j]) ELSE DropFirst(Window(cs[j]), ovl)])

\* C1: a token sequence shorter than max_tokens gives exactly one chunk, the
\* whole sequence tokens[0:n] (n = 0 and max_tokens - overlap < n included).
C1_OneChunkBelowMax ==
    (cpc = "done" /\ ntokens < max_tokens)
        => chunks = <<[lo |-> 0, hi |-> ntokens]>>

\* C2: the first window followed by every later window without its first
\* `overlap` tokens is the token sequence itself: no gap, no repeat, in order.
C2_ChunkCoverage ==
    cpc = "done" => Reassemble(chunks, overlap) = Positions(0, ntokens)

\* C2 witness: several windows with an overlap, the last one shorter than the
\* overlap and so dropped whole.
C2_Witness ==
    /\ cpc = "done"
    /\ overlap >= 1
    /\ Len(chunks) >= 3
    /\ Size(chunks[Len(chunks)]) < overlap

\* C10: window j starts at j * (max_tokens - overlap), no window is longer
\* than max_tokens, and every window but the last has exactly max_tokens
\* tokens and shares exactly `overlap` tokens with its predecessor.
C10_WindowShape ==
    cpc = "done" =>
        \A j \in 1..Len(chunks) :
            /\ chunks[j].lo = (j - 1) * (max_tokens - overlap)
            /\ Size(chunks[j]) <= max_tokens
            /\ j < Len(chunks) => Size(chunks[j]) = max_tokens
            /\ (1 < j /\ j < Len(chunks))
                   => chunks[j - 1].hi - chunks[j].lo = overlap

\* Row i of vs is the embedding of the text of record i of ms, for every i.
Aligned(vs, ms) ==
    /\ Len(vs) = Len(ms)
    /\ \A i \in 1..Len(vs) : vs[i] = Emb(ms[i].text)

\* C3: in a run that writes the artifacts, the index built and the index
\* file hold one vector per metadata record, vector i the embedding of the
\* chunk of record i, whatever the batch calls returned.
C3_RowAlignment ==
    pc = "done" => Aligned(index, meta) /\ Aligned(indexFile.rows, metaFile.rows)

\* C6: a run that fails leaves neither the index file nor the metadata file.
C6_AllOrNothing ==
    pc = "failed" => ~indexFile.exists /\ ~metaFile.exists

\* C7: with a backend that returns one vector per text of a batch in order,
\* the batch loop sends the texts once each, in order, in non-empty batches
\* of at most batch_size, and embeddings[i] is the embedding of texts[i];
\* when the loop is over all of texts has been sent and embedded.
C7_BatchedEmbedding ==
    pc \in {"embed", "mkdir", "write_index", "write_meta", "done"} =>
        LET upto == Min(bi, Len(texts))
        IN  /\ Flatten(sent) = SubSeq(texts, 1, upto)
            /\ \A b \in 1..Len(sent) :
                  1 <= Len(sent[b]) /\ Len(sent[b]) <= batch_size
            /\ Len(embeddings) = upto
            /\ \A i \in 1..Len(embeddings) : embeddings[i] = Emb(texts[i])
            /\ pc # "embed" => upto = Len(texts)

\* C7 witness: the loop is over after several batches, the last one partial.
C7_Witness ==
    /\ pc = "mkdir"
    /\ Len(sent) >= 2
    /\ Len(sent[1]) = batch_size
    /\ Len(sent[Len(sent)]) < batch_size
    /\ Len(embeddings) = Len(texts)

\* C4: asked for more results than the (aligned, non-empty) index has rows,
\* a retrieval emits exactly one result per row, none from a padded position.
C4_FewerRowsThanK ==
    (/\ qpc = "done"
     /\ Len(qmeta) = qindex.ntotal
     /\ 0 < qindex.ntotal
     /\ qindex.ntotal < topk)
        => /\ Len(printed) = qindex.ntotal
           /\ \A i \in 1..Len(printed) : pairs[i].idx >= 0

\* C5: no search is run and no result is emitted when the metadata loaded
\* has another length than the index has rows.
C5_RefusesMisaligned ==
    (searched \/ printed # <<>>) => Len(qmeta) = qindex.ntotal

\* C8: the search is never called on an index of zero rows, and no result
\* is emitted from one.
C8_EmptyIndexRejected ==
    (qindex.loaded /\ qindex.ntotal = 0) => ~searched /\ printed = <<>>

\* The results assembled so far by the result loop.
Emitted == IF script = "assist" /\ qpc # "done" THEN results ELSE printed

\* The metadata record Python's meta[idx] denotes.
RowOf(idx) == IF idx >= 0 THEN idx ELSE Len(qmeta) + idx

\* C9: the results are the pairs the search returned, one per pair, in the
\* same order: result i carries the distance of pair i and the name and text
\* of the metadata record at pair i's row index, so distances never decrease;
\* a retrieval that returns has a result for every pair.
C9_RankedJoin ==
    /\ Len(Emitted) <= Len(pairs)
    /\ \A i \in 1..Len(Emitted) :
          /\ Emitted[i].distance = pairs[i].dist
          /\ Emitted[i].name = qmeta[RowOf(pairs[i].idx) + 1].name
          /\ Emitted[i].chunk = qmeta[RowOf(pairs[i].idx) + 1].text
          /\ i > 1 => Emitted[i - 1].distance <= Emitted[i].distance
    /\ qpc = "done" => Len(printed) = Len(pairs) /\ results \in {<<>>, printed}

\* C9 witness: a finished retrieval of two real rows, the nearer one stored
\* after the farther one.
C9_Witness ==
    /\ qpc = "done"
    /\ Len(printed) >= 2
    /\ pairs[2].idx >= 0
    /\ pairs[1].idx > pairs[2].idx
    /\ printed[1].distance < printed[2].distance

====
